---- MODULE Spec2Model ----
(***************************************************************************)
(* A model of the engine contracts (discarding keyswitch and negation of   *)
(* LWE ciphertexts), of the tensor-product fixture and of the prototype /  *)
(* synthesis adapter layer of concrete-core and concrete-core-fixture.     *)
(*                                                                         *)
(* Three specifications share the variables below:                         *)
(*   EngineSpec   one call site of a discarding engine operation           *)
(*   FixtureSpec  one run of GlweCiphertextTensorProductFixture            *)
(*   AdapterSpec  the synthesize / unsynthesize / destroy adapter          *)
(* Each keeps the variables of the other two at their initial values.      *)
(***************************************************************************)
EXTENDS Integers, Sequences, FiniteSets, TLC

VARIABLES
    \* ---- engine contracts ----
    epc,        \* position of the call site: idle, rejected, ready, done
    eop,        \* the operation of the call site: none, negation, keyswitch
    entry,      \* the entry point taken: none, checked, unchecked
    input,      \* the input LWE ciphertext (&InputCiphertext)
    output,     \* the output LWE ciphertext (&mut OutputCiphertext)
    ksk,        \* the LWE keyswitch key (&KeyswitchKey)
    result,     \* what the checked entry point returned
    pre,        \* history: the output entity as it was before the call
    orig,       \* history: the input of the first call of a chain of negations
    depth       \* history: number of negations applied in the chain

evars == <<epc, eop, entry, input, output, ksk, result, pre, orig, depth>>

VARIABLES
    \* ---- tensor-product fixture ----
    fpc,               \* position of the fixture run
    key_distribution,  \* CiphertextIn1::KeyDistribution of the instantiation
    remaining,         \* the parameter sets the iterator has not yielded yet
    parameters,        \* the parameter set under test
    repetition_proto,  \* the repetition prototypes
    sample_proto,      \* the sample prototypes
    entity,            \* lifecycle of each entity of the current context
    destroyed,         \* number of completed destroy calls per entity
    log,               \* the adapter and engine calls of the current context, in order
    repetitions,       \* repetitions started for the parameter set
    samples,           \* samples started in the repetition
    criteria,          \* what compute_criteria returned
    verdict,           \* what verify returned
    outcome,           \* what process_context returned for the sample: (expected, actual)
    criteria_history   \* history: the compute_criteria calls so far and what they returned

fvars == <<fpc, key_distribution, remaining, parameters, repetition_proto, sample_proto,
           entity, destroyed, log, repetitions, samples, criteria, verdict, outcome,
           criteria_history>>

VARIABLES
    \* ---- prototype / synthesis adapter ----
    apc,             \* position of the adapter scenario
    precision,       \* the precision of the Maker implementation in use
    proto,           \* the prototype handed to the adapter
    proto0,          \* history: that prototype as it was first made
    ggsw,            \* the synthesized GGSW ciphertext entity
    unproto,         \* the prototype un-synthesized from the entity
    raw,             \* the raw value handed to transform_raw_to_cleartext
    cleartext_proto, \* the cleartext prototype made from it
    raw_back         \* the raw value transformed back from the prototype

avars == <<apc, precision, proto, proto0, ggsw, unproto, raw, cleartext_proto, raw_back>>

vars == <<evars, fvars, avars>>

----------------------------------------------------------------------------
(* Bounds of the model *)

\* LWE dimensions range over 1..MaxDim
MaxDim == 2
\* coefficients live in Z_Q (the code's u32 / u64 torus, scaled down)
Q == 3
\* decomposition base and level count of the keyswitch key
DecompBase == 2
DecompLevels == 2
\* a chain of negations is at most MaxChain long
MaxChain == 2
\* random draws (keys, plaintext vectors, encryption noise) are numbered 1..MaxDraw
MaxDraw == 2
\* repetitions per parameter set and samples per repetition of a fixture run
MaxRepetitions == 2
MaxSamples == 2
\* raw cleartext values range over 0..MaxRaw
MaxRaw == 3

----------------------------------------------------------------------------
(* Entities of the engine contracts *)

\* markers::{BinaryKeyDistribution, TernaryKeyDistribution, GaussianKeyDistribution}
KeyDistributionMarker ==
    {"BinaryKeyDistribution", "TernaryKeyDistribution", "GaussianKeyDistribution"}

Dims == 1..MaxDim
Coefs == 0..(Q - 1)

\* sequences of length n over S
SeqN(S, n) == [1..n -> S]

\* an LWE ciphertext entity: its key distribution marker (an associated type in
\* the code), its mask and its body
Ciphertext(kd, mask, body) == [kd |-> kd, mask |-> mask, body |-> body]

\* LweCiphertextEntity::lwe_dimension
lwe_dimension(ct) == Len(ct.mask)

NoCiphertext == Ciphertext("none", <<>>, 0)

\* every LWE ciphertext of a dimension in Dims over Z_Q
AllCiphertexts ==
    UNION { { Ciphertext(kd, m, b) : kd \in KeyDistributionMarker,
                                     m \in SeqN(Coefs, d), b \in Coefs } : d \in Dims }

\* ciphertexts filled with a single coefficient: the previous content of an
\* output entity that is about to be overwritten, or a keyswitch input
FilledCiphertexts ==
    { Ciphertext(kd, [i \in 1..d |-> f], f) :
        kd \in KeyDistributionMarker, d \in Dims, f \in {0, 1} }

\* an LWE keyswitch key entity; its coefficients are generated from its shape
KeyswitchKey(ikd, okd, idim, odim) ==
    [inKd |-> ikd, outKd |-> okd,
     input_lwe_dimension |-> idim, output_lwe_dimension |-> odim]

NoKeyswitchKey == KeyswitchKey("none", "none", 0, 0)

AllKeyswitchKeys ==
    { KeyswitchKey(ikd, okd, idim, odim) :
        ikd \in KeyDistributionMarker, okd \in KeyDistributionMarker,
        idim \in Dims, odim \in Dims }

\* coefficient j (j = output dimension + 1 is the body) of the level-l
\* ciphertext of row i of the keyswitch key
KskCoef(k, i, l, j) == (i + 2 * l + j) % Q

----------------------------------------------------------------------------
(* The generic checks *)

\* mutant: the comparison accepts an input larger than the output
Negation_perform_generic_checks_Lt(out, in) ==
    IF lwe_dimension(in) < lwe_dimension(out)
    THEN "LweDimensionMismatch"
    ELSE "Ok"

\* mutant: the comparison accepts an input smaller than the output
Negation_perform_generic_checks_Gt(out, in) ==
    IF lwe_dimension(in) > lwe_dimension(out)
    THEN "LweDimensionMismatch"
    ELSE "Ok"

\* LweCiphertextDiscardingNegationError::perform_generic_checks
Negation_perform_generic_checks(out, in) ==
    IF lwe_dimension(in) # lwe_dimension(out)
    THEN "LweDimensionMismatch"
    ELSE "Ok"

\* mutant: the output-side check compares against the key's input dimension
Keyswitch_perform_generic_checks_WrongField(out, in, k) ==
    IF lwe_dimension(in) # k.input_lwe_dimension
    THEN "InputLweDimensionMismatch"
    ELSE IF lwe_dimension(out) # k.input_lwe_dimension
         THEN "OutputLweDimensionMismatch"
         ELSE "Ok"

\* mutant: the output-side check comes first
Keyswitch_perform_generic_checks_Swapped(out, in, k) ==
    IF lwe_dimension(out) # k.output_lwe_dimension
    THEN "OutputLweDimensionMismatch"
    ELSE IF lwe_dimension(in) # k.input_lwe_dimension
         THEN "InputLweDimensionMismatch"
         ELSE "Ok"

\* mutant: the output-side check is missing
Keyswitch_perform_generic_checks_InputOnly(out, in, k) ==
    IF lwe_dimension(in) # k.input_lwe_dimension
    THEN "InputLweDimensionMismatch"
    ELSE "Ok"

\* LweCiphertextDiscardingKeyswitchError::perform_generic_checks
Keyswitch_perform_generic_checks(out, in, k) ==
    IF lwe_dimension(in) # k.input_lwe_dimension
    THEN "InputLweDimensionMismatch"
    ELSE IF lwe_dimension(out) # k.output_lwe_dimension
         THEN "OutputLweDimensionMismatch"
         ELSE "Ok"

\* mutant: the bound on the output ciphertext's key distribution is missing
Negation_where_clause_Unbound(out, in) ==
    in.kd \in KeyDistributionMarker /\ out.kd \in KeyDistributionMarker

\* the trait bounds of the negation engine and of its generic checks:
\* OutputCiphertext: LweCiphertextEntity<KeyDistribution = InputCiphertext::KeyDistribution>
Negation_where_clause(out, in) ==
    out.kd = in.kd

\* the trait bounds of the keyswitch engine and of its generic checks:
\* InputCiphertext: LweCiphertextEntity<KeyDistribution = KeyswitchKey::InputKeyDistribution>
\* OutputCiphertext: LweCiphertextEntity<KeyDistribution = KeyswitchKey::OutputKeyDistribution>
Keyswitch_where_clause(out, in, k) ==
    in.kd = k.inKd /\ out.kd = k.outKd

----------------------------------------------------------------------------
(* The effect of the backend *)

\* the opposite of a coefficient in Z_Q
Neg(x) == (Q - x) % Q

\* a - b in Z_Q
Sub(a, b) == ((a % Q) + Q - (b % Q)) % Q

\* the documented negation: A' = -A, B' = -B, written into the output entity,
\* which keeps its own storage (a discarding operation allocates nothing)
NegationEffect(out, in) ==
    [out EXCEPT
        !.mask = [j \in 1..Len(out.mask) |->
                    IF j <= Len(in.mask) THEN Neg(in.mask[j]) ELSE out.mask[j]],
        !.body = Neg(in.body)]

\* digit l of the decomposition of a coefficient
Digit(a, l) ==
    LET RECURSIVE pow(_)
        pow(n) == IF n = 0 THEN 1 ELSE DecompBase * pow(n - 1)
    IN  (a \div pow(l - 1)) % DecompBase

RECURSIVE SumTo(_, _)
\* f[1] + ... + f[n]
SumTo(f, n) == IF n = 0 THEN 0 ELSE f[n] + SumTo(f, n - 1)

Min(a, b) == IF a < b THEN a ELSE b

\* coefficient j of sum_i decompProduct(a_i, ksk_i)
DecompProductSum(in, k, j) ==
    LET n == Min(Len(in.mask), k.input_lwe_dimension)
        row == [i \in 1..n |->
                  SumTo([l \in 1..DecompLevels |->
                            Digit(in.mask[i], l) * KskCoef(k, i, l, j)], DecompLevels)]
    IN  SumTo(row, n)

\* the documented keyswitch: ct = (0, ..., 0, b_in), then
\* ct_out = ct - sum_i decompProduct(a_i, ksk_i), written into the output entity
KeyswitchEffect(out, in, k) ==
    [out EXCEPT
        !.mask = [j \in 1..Len(out.mask) |-> Sub(0, DecompProductSum(in, k, j))],
        !.body = Sub(in.body, DecompProductSum(in, k, Len(out.mask) + 1))]

----------------------------------------------------------------------------
(* The tensor-product fixture *)

\* dispersion::Variance(m * 10^e)
Variance(m, e) == [mantissa |-> m, exp10 |-> e]

\* GlweCiphertextTensorProductParameters
GlweCiphertextTensorProductParameters(n1, n2, d1, d2, b1, b2, k, n) ==
    [noise_glwe_1 |-> n1, noise_glwe_2 |-> n2, delta_1 |-> d1, delta_2 |-> d2,
     msg_bound_1 |-> b1, msg_bound_2 |-> b2, glwe_dimension |-> k, polynomial_size |-> n]

\* generate_parameters_iterator yielding a third parameter set
generate_parameters_iterator_Three ==
    << GlweCiphertextTensorProductParameters(
           Variance(1, -8), Variance(1, -8), 16, 16, 4, 4, 200, 256),
       GlweCiphertextTensorProductParameters(
           Variance(1, -8), Variance(1, -8), 16, 16, 4, 4, 1, 256),
       GlweCiphertextTensorProductParameters(
           Variance(1, -8), Variance(1, -8), 16, 16, 4, 4, 2, 256) >>

\* Fixture::generate_parameters_iterator
generate_parameters_iterator ==
    << GlweCiphertextTensorProductParameters(
           Variance(1, -8), Variance(1, -8), 16, 16, 4, 4, 200, 256),
       GlweCiphertextTensorProductParameters(
           Variance(1, -8), Variance(1, -8), 16, 16, 4, 4, 1, 256) >>

NoParameters ==
    GlweCiphertextTensorProductParameters(
        Variance(0, 0), Variance(0, 0), 0, 0, 0, 0, 0, 0)

Draws == 1..MaxDraw

\* the entities of one context
InputEntities == {"ciphertext1", "ciphertext2", "scale"}
EntityNames == InputEntities \cup {"output_ciphertext"}

\* one call made on behalf of the context
Step(op, e) == [op |-> op, e |-> e]

\* Fixture::prepare_context, call by call
prepare_context_steps ==
    << Step("synthesize", "ciphertext1"),
       Step("synthesize", "ciphertext2"),
       Step("synthesize", "scale") >>

\* Fixture::execute_engine, call by call
execute_engine_steps ==
    << Step("tensor_product", "output_ciphertext") >>

\* mutant: the scale cleartext is never handed to destroy_cleartext
process_context_steps_Leak ==
    << Step("unsynthesize", "output_ciphertext"),
       Step("destroy", "ciphertext1"),
       Step("destroy", "ciphertext2"),
       Step("destroy", "output_ciphertext"),
       Step("decrypt", "proto_output_ciphertext"),
       Step("transform", "proto_plaintext_vector1"),
       Step("transform", "proto_plaintext_vector2"),
       Step("transform", "proto_scale"),
       Step("transform", "proto_output_plaintext_vector") >>

\* mutant: the output ciphertext is un-synthesized after the destructions
process_context_steps_Late ==
    << Step("destroy", "ciphertext1"),
       Step("destroy", "ciphertext2"),
       Step("destroy", "output_ciphertext"),
       Step("destroy", "scale"),
       Step("unsynthesize", "output_ciphertext"),
       Step("decrypt", "proto_output_ciphertext"),
       Step("transform", "proto_plaintext_vector1"),
       Step("transform", "proto_plaintext_vector2"),
       Step("transform", "proto_scale"),
       Step("transform", "proto_output_plaintext_vector") >>

\* Fixture::process_context, call by call
process_context_steps ==
    << Step("unsynthesize", "output_ciphertext"),
       Step("destroy", "ciphertext1"),
       Step("destroy", "ciphertext2"),
       Step("destroy", "output_ciphertext"),
       Step("destroy", "scale"),
       Step("decrypt", "proto_output_ciphertext"),
       Step("transform", "proto_plaintext_vector1"),
       Step("transform", "proto_plaintext_vector2"),
       Step("transform", "proto_scale"),
       Step("transform", "proto_output_plaintext_vector") >>

\* the state of a context: lifecycle, destroy counts, call log, and whether a
\* call panicked
Context(en, de, lg, pa) == [entity |-> en, destroyed |-> de, log |-> lg, panicked |-> pa]

\* one call of a handler; failing says that the engine's destroy returns an
\* error, which the adapter unwraps: the panic unwinds the handler, dropping the
\* entities it still owns without handing them to destroy
ApplyStep(c, s, failing) ==
    IF c.panicked THEN c
    ELSE IF s.op = "synthesize" THEN
        Context([c.entity EXCEPT ![s.e] = "live"], c.destroyed,
                Append(c.log, <<"synthesize", s.e>>), FALSE)
    ELSE IF s.op = "tensor_product" THEN
        Context([c.entity EXCEPT ![s.e] = "live"], c.destroyed,
                c.log \o << <<"read", "ciphertext1">>, <<"read", "ciphertext2">>,
                            <<"read", "scale">>, <<"execute", s.e>> >>, FALSE)
    ELSE IF s.op = "unsynthesize" THEN
        Context(c.entity, c.destroyed, Append(c.log, <<"unsynthesize", s.e>>), FALSE)
    ELSE IF s.op = "destroy" /\ failing THEN
        Context([e \in EntityNames |-> IF c.entity[e] = "live" THEN "dropped" ELSE c.entity[e]],
                c.destroyed, Append(c.log, <<"destroy_failed", s.e>>), TRUE)
    ELSE IF s.op = "destroy" THEN
        Context([c.entity EXCEPT ![s.e] = "destroyed"],
                [c.destroyed EXCEPT ![s.e] = @ + 1],
                Append(c.log, <<"destroy", s.e>>), FALSE)
    ELSE
        Context(c.entity, c.destroyed, Append(c.log, <<s.op, s.e>>), FALSE)

RECURSIVE RunSteps(_, _, _, _)
\* the calls steps[i..] of a handler, of which call number fail (0: none) fails
RunSteps(c, steps, i, fail) ==
    IF i > Len(steps) THEN c
    ELSE RunSteps(ApplyStep(c, steps[i], i = fail), steps, i + 1, fail)

\* the calls of a handler that can fail: the destroy calls
FailurePoints(steps) == {0} \cup { i \in 1..Len(steps) : steps[i].op = "destroy" }

NoContext ==
    Context([e \in EntityNames |-> "absent"], [e \in EntityNames |-> 0], <<>>, FALSE)

NoRepetitionProto ==
    [plaintext_vector1 |-> <<>>, plaintext_vector2 |-> <<>>, secret_key |-> <<>>, scale |-> <<>>]

NoSampleProto == [ciphertext1 |-> <<>>, ciphertext2 |-> <<>>]

\* PrototypesGlweSecretKey::new_glwe_secret_key: a key drawn at random
new_glwe_secret_key(glwe_dimension, polynomial_size, draw) ==
    [glwe_dimension |-> glwe_dimension, polynomial_size |-> polynomial_size, draw |-> draw]

\* RawUnsignedIntegers::uniform_n_msb_vec: a random vector of the given length
uniform_n_msb_vec(n_msb, len, draw) == [n_msb |-> n_msb, len |-> len, draw |-> draw]

\* PrototypesPlaintextVector::transform_raw_vec_to_plaintext_vector
transform_raw_vec_to_plaintext_vector(raw_vec) == [plaintext_vector |-> raw_vec]

\* PrototypesGlweCiphertext::encrypt_plaintext_vector_to_glwe_ciphertext
encrypt_plaintext_vector_to_glwe_ciphertext(secret_key, plaintext_vector, noise, draw) ==
    [secret_key |-> secret_key, plaintext_vector |-> plaintext_vector,
     noise |-> noise, draw |-> draw]

\* SynthesizesGlweCiphertext::synthesize_glwe_ciphertext
synthesize_glwe_ciphertext(prototype) == [glwe_ciphertext |-> prototype]

\* SynthesizesFloatCleartext::synthesize_cleartext
synthesize_cleartext(prototype) == [cleartext |-> prototype]

\* GlweCiphertextTensorProductEngine::tensor_product_glwe_ciphertext_unchecked:
\* a new ciphertext of the polynomial size of its inputs
tensor_product_glwe_ciphertext_unchecked(input1, input2, scale) ==
    [glwe_ciphertext |->
        [tensor_product |-> <<input1.glwe_ciphertext, input2.glwe_ciphertext>>,
         scale |-> scale.cleartext,
         polynomial_size |-> input1.glwe_ciphertext.secret_key.polynomial_size]]

\* SynthesizesGlweCiphertext::unsynthesize_glwe_ciphertext
unsynthesize_glwe_ciphertext(ciphertext) == ciphertext.glwe_ciphertext

\* PrototypesGlweCiphertext::decrypt_glwe_ciphertext_to_plaintext_vector: one
\* plaintext per coefficient of the ciphertext
decrypt_glwe_ciphertext_to_plaintext_vector(secret_key, ciphertext) ==
    [plaintext_vector |->
        [len |-> ciphertext.polynomial_size, decryption_of |-> ciphertext,
         under |-> secret_key]]

\* PrototypesPlaintextVector::transform_plaintext_vector_to_raw_vec
transform_plaintext_vector_to_raw_vec(prototype) == prototype.plaintext_vector

\* Vec::with_capacity: a vector with room for capacity elements, holding none
Vec_with_capacity(capacity) == [len |-> 0, capacity |-> capacity]

\* Fixture::Outcome = (Vec<Raw>, Vec<Raw>): the expected and the actual vector
Outcome(expected, actual) == <<expected, actual>>

NoOutcome == <<>>

\* concrete_npe::estimate_tensor_product_noise::<T, D1, D2, Kind>
estimate_tensor_product_noise(kind, args) == [kind |-> kind, args |-> args]

\* fix_estimate_tensor_product_noise whose ternary branch selects the binary kind
fix_estimate_tensor_product_noise_TernaryAsBinary(K, args) ==
    IF K = "BinaryKeyDistribution" THEN estimate_tensor_product_noise("BinaryKeyKind", args)
    ELSE IF K = "TernaryKeyDistribution"
         THEN estimate_tensor_product_noise("BinaryKeyKind", args)
    ELSE IF K = "GaussianKeyDistribution"
         THEN estimate_tensor_product_noise("GaussianKeyKind", args)
    ELSE "panic: Unknown key distribution encountered."

\* fix_estimate_tensor_product_noise
fix_estimate_tensor_product_noise(K, args) ==
    IF K = "BinaryKeyDistribution" THEN estimate_tensor_product_noise("BinaryKeyKind", args)
    ELSE IF K = "TernaryKeyDistribution"
         THEN estimate_tensor_product_noise("TernaryKeyKind", args)
    ELSE IF K = "GaussianKeyDistribution"
         THEN estimate_tensor_product_noise("GaussianKeyKind", args)
    ELSE "panic: Unknown key distribution encountered."

----------------------------------------------------------------------------
(* The prototype / synthesis adapter layer *)

\* a tuple struct with one field: Name(f0)
Wrap(type, f0) == [type |-> type, f0 |-> f0]

Nothing == Wrap("none", <<>>)

\* the Maker implements the adapter per precision
IntegerPrecisions == {"Precision32", "Precision64"}
Precisions == IntegerPrecisions \cup {"PrecisionF64"}

\* the GGSW entity each implementation synthesizes
GgswEntityType(prec) ==
    IF prec = "Precision32" THEN "FourierGgswCiphertext32" ELSE "FourierGgswCiphertext64"

\* the GGSW prototype of each implementation
GgswProtoType(prec) ==
    IF prec = "Precision32" THEN "ProtoBinaryFourierGgswCiphertext32"
    ELSE "ProtoBinaryFourierGgswCiphertext64"

\* the GGSW prototypes of an implementation: each wraps a ciphertext
GgswPrototypes(prec) ==
    { Wrap(GgswProtoType(prec), Wrap(GgswEntityType(prec), d)) : d \in SeqN(Coefs, MaxDim) }

\* SynthesizesGgswCiphertext::synthesize_ggsw_ciphertext: prototype.0.to_owned()
synthesize_ggsw_ciphertext(prec, prototype) == prototype.f0

\* mutant: the 64 bit implementation wraps into the 32 bit prototype
unsynthesize_ggsw_ciphertext_Wrong(prec, e) ==
    Wrap("ProtoBinaryFourierGgswCiphertext32", e)

\* SynthesizesGgswCiphertext::unsynthesize_ggsw_ciphertext:
\* ProtoBinaryFourierGgswCiphertext32(entity.to_owned()), and the 64 bit one
unsynthesize_ggsw_ciphertext(prec, e) ==
    IF prec = "Precision32"
    THEN Wrap("ProtoBinaryFourierGgswCiphertext32", e)
    ELSE Wrap("ProtoBinaryFourierGgswCiphertext64", e)

\* the cleartext entity of each precision
CleartextType(prec) ==
    IF prec = "Precision32" THEN "Cleartext32"
    ELSE IF prec = "Precision64" THEN "Cleartext64" ELSE "CleartextF64"

\* CleartextCreationEngine::create_cleartext of the core engine
create_cleartext(prec, r) == Wrap(CleartextType(prec), r)

\* CleartextRetrievalEngine::retrieve_cleartext of the core engine
retrieve_cleartext(c) == c.f0

\* PrototypesCleartext / PrototypesFloatCleartext::transform_raw_to_cleartext
transform_raw_to_cleartext(prec, r) ==
    IF prec = "Precision32" THEN Wrap("ProtoCleartext32", create_cleartext(prec, r))
    ELSE IF prec = "Precision64" THEN Wrap("ProtoCleartext64", create_cleartext(prec, r))
    ELSE Wrap("ProtoCleartextF64", create_cleartext(prec, r))

\* PrototypesCleartext / PrototypesFloatCleartext::transform_cleartext_to_raw
transform_cleartext_to_raw(prec, cleartext) == retrieve_cleartext(cleartext.f0)

\* what a call of the engine returns: the adapter unwraps it
EngineResults == {"Ok", "Err"}

----------------------------------------------------------------------------
(* The call site of a discarding operation *)

EngineInit ==
    /\ epc = "idle"
    /\ eop = "none"
    /\ entry = "none"
    /\ input = NoCiphertext
    /\ output = NoCiphertext
    /\ ksk = NoKeyswitchKey
    /\ result = "none"
    /\ pre = NoCiphertext
    /\ orig = NoCiphertext
    /\ depth = 0
    /\ fpc = "idle"
    /\ key_distribution = "none"
    /\ remaining = <<>>
    /\ parameters = NoParameters
    /\ repetition_proto = NoRepetitionProto
    /\ sample_proto = NoSampleProto
    /\ entity = NoContext.entity
    /\ destroyed = NoContext.destroyed
    /\ log = NoContext.log
    /\ repetitions = 0
    /\ samples = 0
    /\ criteria = <<>>
    /\ verdict = "none"
    /\ outcome = NoOutcome
    /\ criteria_history = {}
    /\ apc = "idle"
    /\ precision = "none"
    /\ proto = Nothing
    /\ proto0 = Nothing
    /\ ggsw = Nothing
    /\ unproto = Nothing
    /\ raw = 0
    /\ cleartext_proto = Nothing
    /\ raw_back = 0

\* a call site of the negation engine is type-checked against the trait bounds:
\* it exists in the program only when the bounds hold
InstantiateNegation ==
    /\ epc = "idle"
    /\ \E in \in AllCiphertexts, out \in FilledCiphertexts :
        /\ input' = in
        /\ output' = out
        /\ pre' = out
        /\ orig' = in
        /\ epc' = IF Negation_where_clause(out, in) THEN "ready" ELSE "rejected"
    /\ eop' = "negation"
    /\ UNCHANGED <<entry, ksk, result, depth>>
    /\ UNCHANGED <<fvars, avars>>

\* a call site of the keyswitch engine is type-checked against the trait bounds
InstantiateKeyswitch ==
    /\ epc = "idle"
    /\ \E in \in FilledCiphertexts, out \in FilledCiphertexts, k \in AllKeyswitchKeys :
        /\ input' = in
        /\ output' = out
        /\ pre' = out
        /\ orig' = in
        /\ ksk' = k
        /\ epc' = IF Keyswitch_where_clause(out, in, k) THEN "ready" ELSE "rejected"
    /\ eop' = "keyswitch"
    /\ UNCHANGED <<entry, result, depth>>
    /\ UNCHANGED <<fvars, avars>>

\* LweCiphertextDiscardingNegationEngine::discard_neg_lwe_ciphertext: the generic
\* checks, then the effect of the unchecked entry point
discard_neg_lwe_ciphertext ==
    /\ epc = "ready"
    /\ eop = "negation"
    /\ LET r == Negation_perform_generic_checks(output, input)
       IN  /\ result' = r
           /\ output' = IF r = "Ok" THEN NegationEffect(output, input) ELSE output
    /\ entry' = "checked"
    /\ depth' = depth + 1
    /\ epc' = "done"
    /\ UNCHANGED <<eop, input, ksk, pre, orig>>
    /\ UNCHANGED <<fvars, avars>>

\* LweCiphertextDiscardingNegationEngine::discard_neg_lwe_ciphertext_unchecked,
\* called as its safety section demands: with the preconditions upheld
discard_neg_lwe_ciphertext_unchecked ==
    /\ epc = "ready"
    /\ eop = "negation"
    /\ depth = 0
    /\ lwe_dimension(input) = lwe_dimension(output)
    /\ output' = NegationEffect(output, input)
    /\ entry' = "unchecked"
    /\ depth' = depth + 1
    /\ epc' = "done"
    /\ UNCHANGED <<eop, input, ksk, pre, orig, result>>
    /\ UNCHANGED <<fvars, avars>>

\* LweCiphertextDiscardingKeyswitchEngine::discard_keyswitch_lwe_ciphertext
discard_keyswitch_lwe_ciphertext ==
    /\ epc = "ready"
    /\ eop = "keyswitch"
    /\ LET r == Keyswitch_perform_generic_checks(output, input, ksk)
       IN  /\ result' = r
           /\ output' = IF r = "Ok" THEN KeyswitchEffect(output, input, ksk) ELSE output
    /\ entry' = "checked"
    /\ epc' = "done"
    /\ UNCHANGED <<eop, input, ksk, pre, orig, depth>>
    /\ UNCHANGED <<fvars, avars>>

\* LweCiphertextDiscardingKeyswitchEngine::discard_keyswitch_lwe_ciphertext_unchecked,
\* called as its safety section demands: with the preconditions upheld
discard_keyswitch_lwe_ciphertext_unchecked ==
    /\ epc = "ready"
    /\ eop = "keyswitch"
    /\ lwe_dimension(input) = ksk.input_lwe_dimension
    /\ lwe_dimension(output) = ksk.output_lwe_dimension
    /\ output' = KeyswitchEffect(output, input, ksk)
    /\ entry' = "unchecked"
    /\ epc' = "done"
    /\ UNCHANGED <<eop, input, ksk, pre, orig, result, depth>>
    /\ UNCHANGED <<fvars, avars>>

\* the caller negates again: the ciphertext just written becomes the input of a
\* second call of the checked entry point, with another output entity of the
\* same key distribution
NegateAgain ==
    /\ epc = "done"
    /\ eop = "negation"
    /\ entry = "checked"
    /\ result = "Ok"
    /\ depth < MaxChain
    /\ \E out \in FilledCiphertexts :
        /\ Negation_where_clause(out, output)
        /\ output' = out
        /\ pre' = out
    /\ input' = output
    /\ result' = "none"
    /\ entry' = "none"
    /\ epc' = "ready"
    /\ UNCHANGED <<eop, ksk, orig, depth>>
    /\ UNCHANGED <<fvars, avars>>

EngineNext ==
    \/ InstantiateNegation
    \/ InstantiateKeyswitch
    \/ discard_neg_lwe_ciphertext
    \/ discard_neg_lwe_ciphertext_unchecked
    \/ discard_keyswitch_lwe_ciphertext
    \/ discard_keyswitch_lwe_ciphertext_unchecked
    \/ NegateAgain

EngineSpec == EngineInit /\ [][EngineNext]_vars

----------------------------------------------------------------------------
(* The run of the tensor-product fixture *)

FixtureInit ==
    /\ fpc = "start"
    /\ key_distribution \in KeyDistributionMarker
    /\ remaining = generate_parameters_iterator
    /\ parameters = NoParameters
    /\ repetition_proto = NoRepetitionProto
    /\ sample_proto = NoSampleProto
    /\ entity = NoContext.entity
    /\ destroyed = NoContext.destroyed
    /\ log = NoContext.log
    /\ repetitions = 0
    /\ samples = 0
    /\ criteria = <<>>
    /\ verdict = "none"
    /\ outcome = NoOutcome
    /\ criteria_history = {}
    /\ epc = "idle"
    /\ eop = "none"
    /\ entry = "none"
    /\ input = NoCiphertext
    /\ output = NoCiphertext
    /\ ksk = NoKeyswitchKey
    /\ result = "none"
    /\ pre = NoCiphertext
    /\ orig = NoCiphertext
    /\ depth = 0
    /\ apc = "idle"
    /\ precision = "none"
    /\ proto = Nothing
    /\ proto0 = Nothing
    /\ ggsw = Nothing
    /\ unproto = Nothing
    /\ raw = 0
    /\ cleartext_proto = Nothing
    /\ raw_back = 0

\* the driver takes the next parameter set of the iterator; the prototypes and
\* outcomes of the finished repetition are dropped
next_parameters ==
    /\ fpc \in {"start", "verified"}
    /\ fpc = "verified" => repetitions = MaxRepetitions
    /\ remaining # <<>>
    /\ parameters' = Head(remaining)
    /\ remaining' = Tail(remaining)
    /\ repetitions' = 0
    /\ samples' = 0
    /\ repetition_proto' = NoRepetitionProto
    /\ sample_proto' = NoSampleProto
    /\ outcome' = NoOutcome
    /\ fpc' = "parameters"
    /\ UNCHANGED <<key_distribution, entity, destroyed, log, criteria, verdict,
                   criteria_history>>
    /\ UNCHANGED <<evars, avars>>

\* Fixture::generate_random_repetition_prototypes
generate_random_repetition_prototypes ==
    /\ fpc \in {"parameters", "verified"}
    /\ repetitions < MaxRepetitions
    /\ \E dk \in Draws, d1 \in Draws, d2 \in Draws :
        LET proto_secret_key ==
                new_glwe_secret_key(parameters.glwe_dimension, parameters.polynomial_size, dk)
            proto_plaintext_vector1 ==
                transform_raw_vec_to_plaintext_vector(
                    uniform_n_msb_vec(5, parameters.polynomial_size, d1))
            proto_plaintext_vector2 ==
                transform_raw_vec_to_plaintext_vector(
                    uniform_n_msb_vec(5, parameters.polynomial_size, d2))
            s == 1
            scale == transform_raw_to_cleartext("PrecisionF64", s)
        IN  repetition_proto' =
                [plaintext_vector1 |-> proto_plaintext_vector1,
                 plaintext_vector2 |-> proto_plaintext_vector2,
                 secret_key |-> proto_secret_key,
                 scale |-> scale]
    /\ repetitions' = repetitions + 1
    /\ samples' = 0
    /\ sample_proto' = NoSampleProto
    /\ outcome' = NoOutcome
    /\ fpc' = "repetition"
    /\ UNCHANGED <<key_distribution, remaining, parameters, entity, destroyed, log,
                   criteria, verdict, criteria_history>>
    /\ UNCHANGED <<evars, avars>>

\* generate_random_sample_prototypes encrypting the first plaintext vector twice
generate_random_sample_prototypes_SameVector ==
    /\ fpc \in {"repetition", "processed"}
    /\ samples < MaxSamples
    /\ \E d1 \in Draws, d2 \in Draws :
        sample_proto' =
            [ciphertext1 |->
                encrypt_plaintext_vector_to_glwe_ciphertext(
                    repetition_proto.secret_key, repetition_proto.plaintext_vector1,
                    parameters.noise_glwe_1, d1),
             ciphertext2 |->
                encrypt_plaintext_vector_to_glwe_ciphertext(
                    repetition_proto.secret_key, repetition_proto.plaintext_vector1,
                    parameters.noise_glwe_2, d2)]
    /\ samples' = samples + 1
    /\ outcome' = NoOutcome
    /\ fpc' = "sample"
    /\ UNCHANGED <<key_distribution, remaining, parameters, repetition_proto, entity,
                   destroyed, log, repetitions, criteria, verdict, criteria_history>>
    /\ UNCHANGED <<evars, avars>>

\* Fixture::generate_random_sample_prototypes
generate_random_sample_prototypes ==
    /\ fpc \in {"repetition", "processed"}
    /\ samples < MaxSamples
    /\ \E d1 \in Draws, d2 \in Draws :
        sample_proto' =
            [ciphertext1 |->
                encrypt_plaintext_vector_to_glwe_ciphertext(
                    repetition_proto.secret_key, repetition_proto.plaintext_vector1,
                    parameters.noise_glwe_1, d1),
             ciphertext2 |->
                encrypt_plaintext_vector_to_glwe_ciphertext(
                    repetition_proto.secret_key, repetition_proto.plaintext_vector2,
                    parameters.noise_glwe_2, d2)]
    /\ samples' = samples + 1
    /\ outcome' = NoOutcome
    /\ fpc' = "sample"
    /\ UNCHANGED <<key_distribution, remaining, parameters, repetition_proto, entity,
                   destroyed, log, repetitions, criteria, verdict, criteria_history>>
    /\ UNCHANGED <<evars, avars>>

\* Fixture::prepare_context: a new context, whose entities are synthesized
prepare_context ==
    /\ fpc = "sample"
    /\ LET c == RunSteps(NoContext, prepare_context_steps, 1, 0)
       IN  /\ entity' = c.entity
           /\ destroyed' = c.destroyed
           /\ log' = c.log
    /\ fpc' = "prepared"
    /\ UNCHANGED <<key_distribution, remaining, parameters, repetition_proto,
                   sample_proto, repetitions, samples, criteria, verdict, outcome,
                   criteria_history>>
    /\ UNCHANGED <<evars, avars>>

\* Fixture::execute_engine
execute_engine ==
    /\ fpc = "prepared"
    /\ LET c == RunSteps(Context(entity, destroyed, log, FALSE), execute_engine_steps, 1, 0)
       IN  /\ entity' = c.entity
           /\ destroyed' = c.destroyed
           /\ log' = c.log
    /\ fpc' = "executed"
    /\ UNCHANGED <<key_distribution, remaining, parameters, repetition_proto,
                   sample_proto, repetitions, samples, criteria, verdict, outcome,
                   criteria_history>>
    /\ UNCHANGED <<evars, avars>>

\* Fixture::process_context: it returns the outcome, or one of its destroy
\* calls panics
process_context ==
    /\ fpc = "executed"
    /\ \E fail \in FailurePoints(process_context_steps) :
        LET c == RunSteps(Context(entity, destroyed, log, FALSE),
                          process_context_steps, 1, fail)
        IN  /\ entity' = c.entity
            /\ destroyed' = c.destroyed
            /\ log' = c.log
            /\ fpc' = IF c.panicked THEN "panicked" ELSE "processed"
            /\ outcome' =
                IF c.panicked THEN outcome
                ELSE LET output_ciphertext ==
                             tensor_product_glwe_ciphertext_unchecked(
                                 synthesize_glwe_ciphertext(sample_proto.ciphertext1),
                                 synthesize_glwe_ciphertext(sample_proto.ciphertext2),
                                 synthesize_cleartext(repetition_proto.scale))
                         proto_output_ciphertext ==
                             unsynthesize_glwe_ciphertext(output_ciphertext)
                         proto_output_plaintext_vector ==
                             decrypt_glwe_ciphertext_to_plaintext_vector(
                                 repetition_proto.secret_key, proto_output_ciphertext)
                         raw_input_plaintext_vector ==
                             Vec_with_capacity(parameters.polynomial_size)
                     IN  Outcome(raw_input_plaintext_vector,
                                 transform_plaintext_vector_to_raw_vec(
                                     proto_output_plaintext_vector))
    /\ UNCHANGED <<key_distribution, remaining, parameters, repetition_proto,
                   sample_proto, repetitions, samples, criteria, verdict,
                   criteria_history>>
    /\ UNCHANGED <<evars, avars>>

\* compute_criteria estimating from the secret key drawn for the repetition
compute_criteria_FromPrototypes ==
    /\ fpc = "processed"
    /\ samples >= 1
    /\ criteria' =
        << fix_estimate_tensor_product_noise(key_distribution,
              << parameters.polynomial_size, repetition_proto.secret_key,
                 parameters.noise_glwe_1, parameters.noise_glwe_2,
                 parameters.delta_1, parameters.delta_2,
                 parameters.msg_bound_1, parameters.msg_bound_2 >>) >>
    /\ criteria_history' =
        criteria_history \cup
            {[parameters |-> parameters, criteria |-> criteria']}
    /\ fpc' = "criteria"
    /\ UNCHANGED <<key_distribution, remaining, parameters, repetition_proto,
                   sample_proto, entity, destroyed, log, repetitions, samples, verdict,
                   outcome>>
    /\ UNCHANGED <<evars, avars>>

\* Fixture::compute_criteria
compute_criteria ==
    /\ fpc = "processed"
    /\ samples >= 1
    /\ criteria' =
        << fix_estimate_tensor_product_noise(key_distribution,
              << parameters.polynomial_size, parameters.glwe_dimension,
                 parameters.noise_glwe_1, parameters.noise_glwe_2,
                 parameters.delta_1, parameters.delta_2,
                 parameters.msg_bound_1, parameters.msg_bound_2 >>) >>
    /\ criteria_history' =
        criteria_history \cup
            {[parameters |-> parameters, criteria |-> criteria']}
    /\ fpc' = "criteria"
    /\ UNCHANGED <<key_distribution, remaining, parameters, repetition_proto,
                   sample_proto, entity, destroyed, log, repetitions, samples, verdict,
                   outcome>>
    /\ UNCHANGED <<evars, avars>>

\* Fixture::verify: the statistical test of the outcomes passes or fails
verify ==
    /\ fpc = "criteria"
    /\ \E ok \in BOOLEAN :
        /\ verdict' = IF ok THEN "pass" ELSE "fail"
        /\ fpc' = IF ok THEN "verified" ELSE "failed"
    /\ UNCHANGED <<key_distribution, remaining, parameters, repetition_proto,
                   sample_proto, entity, destroyed, log, repetitions, samples, criteria, outcome,
                   criteria_history>>
    /\ UNCHANGED <<evars, avars>>

FixtureNext ==
    \/ next_parameters
    \/ generate_random_repetition_prototypes
    \/ generate_random_sample_prototypes
    \/ prepare_context
    \/ execute_engine
    \/ process_context
    \/ compute_criteria
    \/ verify

FixtureSpec == FixtureInit /\ [][FixtureNext]_vars

----------------------------------------------------------------------------
(* The adapter scenario *)

AdapterInit ==
    /\ apc = "start"
    /\ precision \in Precisions
    /\ proto = Nothing
    /\ proto0 = Nothing
    /\ ggsw = Nothing
    /\ unproto = Nothing
    /\ raw = 0
    /\ cleartext_proto = Nothing
    /\ raw_back = 0
    /\ epc = "idle"
    /\ eop = "none"
    /\ entry = "none"
    /\ input = NoCiphertext
    /\ output = NoCiphertext
    /\ ksk = NoKeyswitchKey
    /\ result = "none"
    /\ pre = NoCiphertext
    /\ orig = NoCiphertext
    /\ depth = 0
    /\ fpc = "idle"
    /\ key_distribution = "none"
    /\ remaining = <<>>
    /\ parameters = NoParameters
    /\ repetition_proto = NoRepetitionProto
    /\ sample_proto = NoSampleProto
    /\ entity = NoContext.entity
    /\ destroyed = NoContext.destroyed
    /\ log = NoContext.log
    /\ repetitions = 0
    /\ samples = 0
    /\ criteria = <<>>
    /\ verdict = "none"
    /\ outcome = NoOutcome
    /\ criteria_history = {}

\* a GGSW prototype is handed to the adapter
new_ggsw_prototype ==
    /\ apc = "start"
    /\ precision \in IntegerPrecisions
    /\ \E p \in GgswPrototypes(precision) :
        /\ proto' = p
        /\ proto0' = p
    /\ apc' = "prototype"
    /\ UNCHANGED <<precision, ggsw, unproto, raw, cleartext_proto, raw_back>>
    /\ UNCHANGED <<evars, fvars>>

\* Maker::synthesize_ggsw_ciphertext(&prototype)
synthesize ==
    /\ apc = "prototype"
    /\ ggsw' = synthesize_ggsw_ciphertext(precision, proto)
    /\ apc' = "synthesized"
    /\ UNCHANGED <<precision, proto, proto0, unproto, raw, cleartext_proto, raw_back>>
    /\ UNCHANGED <<evars, fvars>>

\* Maker::unsynthesize_ggsw_ciphertext(&entity)
unsynthesize ==
    /\ apc = "synthesized"
    /\ unproto' = unsynthesize_ggsw_ciphertext(precision, ggsw)
    /\ apc' = "unsynthesized"
    /\ UNCHANGED <<precision, proto, proto0, ggsw, raw, cleartext_proto, raw_back>>
    /\ UNCHANGED <<evars, fvars>>

\* Maker::destroy_ggsw_ciphertext(entity): self.core_engine.destroy(entity).unwrap()
destroy_ggsw_ciphertext ==
    /\ apc = "unsynthesized"
    /\ ggsw' = Nothing
    /\ \E r \in EngineResults : apc' = IF r = "Ok" THEN "destroyed" ELSE "panicked"
    /\ UNCHANGED <<precision, proto, proto0, unproto, raw, cleartext_proto, raw_back>>
    /\ UNCHANGED <<evars, fvars>>

\* Maker::transform_raw_to_cleartext(&raw): create_cleartext(raw).unwrap()
raw_to_cleartext ==
    /\ apc = "start"
    /\ \E r \in 0..MaxRaw, e \in EngineResults :
        /\ raw' = r
        /\ cleartext_proto' =
            IF e = "Ok" THEN transform_raw_to_cleartext(precision, r) ELSE Nothing
        /\ apc' = IF e = "Ok" THEN "cleartext" ELSE "panicked"
    /\ UNCHANGED <<precision, proto, proto0, ggsw, unproto, raw_back>>
    /\ UNCHANGED <<evars, fvars>>

\* Maker::transform_cleartext_to_raw(&cleartext): retrieve_cleartext(&cleartext.0).unwrap()
cleartext_to_raw ==
    /\ apc = "cleartext"
    /\ \E e \in EngineResults :
        /\ raw_back' =
            IF e = "Ok" THEN transform_cleartext_to_raw(precision, cleartext_proto)
            ELSE raw_back
        /\ apc' = IF e = "Ok" THEN "raw" ELSE "panicked"
    /\ UNCHANGED <<precision, proto, proto0, ggsw, unproto, raw, cleartext_proto>>
    /\ UNCHANGED <<evars, fvars>>

AdapterNext ==
    \/ new_ggsw_prototype
    \/ synthesize
    \/ unsynthesize
    \/ destroy_ggsw_ciphertext
    \/ raw_to_cleartext
    \/ cleartext_to_raw

AdapterSpec == AdapterInit /\ [][AdapterNext]_vars

----------------------------------------------------------------------------
(* The engine contracts: properties of EngineSpec *)

\* the checked entry point has returned
CheckedDone == epc = "done" /\ entry = "checked"

\* the dimension preconditions of the call, on the entities as they were handed in
NegationDimensionsMatch == lwe_dimension(input) = lwe_dimension(pre)
KeyswitchInputMatches == lwe_dimension(input) = ksk.input_lwe_dimension
KeyswitchOutputMatches == lwe_dimension(pre) = ksk.output_lwe_dimension

\* C1: for both discarding operations and every call whose dimensions satisfy
\* the preconditions, the checked entry point returns Ok and leaves the output
\* entity as the unchecked entry point leaves it from the same starting state.
C1_CheckedAgreesWithUnchecked ==
    CheckedDone =>
        /\ (eop = "negation" /\ NegationDimensionsMatch) =>
              (result = "Ok" /\ output = NegationEffect(pre, input))
        /\ (eop = "keyswitch" /\ KeyswitchInputMatches /\ KeyswitchOutputMatches) =>
              (result = "Ok" /\ output = KeyswitchEffect(pre, input, ksk))

\* a checked keyswitch on matching dimensions has overwritten its output
C1_Witness ==
    /\ CheckedDone
    /\ eop = "keyswitch"
    /\ KeyswitchInputMatches /\ KeyswitchOutputMatches
    /\ output # pre

\* C2: on every call with mismatched dimensions the checked entry point
\* returns the operation's dimension-mismatch error and neither the output
\* entity nor the arguments of the generic check have changed.
C2_MismatchIsAnErrorAndOutputUnchanged ==
    CheckedDone =>
        /\ (eop = "negation" /\ ~NegationDimensionsMatch) =>
              /\ result = "LweDimensionMismatch"
              /\ output = pre
              /\ (depth = 1 => input = orig)
        /\ (eop = "keyswitch" /\ ~(KeyswitchInputMatches /\ KeyswitchOutputMatches)) =>
              /\ result \in {"InputLweDimensionMismatch", "OutputLweDimensionMismatch"}
              /\ output = pre
              /\ input = orig

\* a checked negation of a ciphertext larger than its output has returned
C2_Witness ==
    /\ CheckedDone
    /\ eop = "negation"
    /\ lwe_dimension(input) > lwe_dimension(pre)
    /\ result = "LweDimensionMismatch"

\* C3: the keyswitch check reports the input side first: an input dimension
\* mismatch gives InputLweDimensionMismatch whatever the output dimension is,
\* and OutputLweDimensionMismatch is returned only when the input side passes
\* and the output side does not.
C3_InputSideBeforeOutputSide ==
    (CheckedDone /\ eop = "keyswitch") =>
        /\ ~KeyswitchInputMatches => result = "InputLweDimensionMismatch"
        /\ result = "OutputLweDimensionMismatch" <=>
              (KeyswitchInputMatches /\ ~KeyswitchOutputMatches)

\* a checked keyswitch with both dimensions mismatched has returned
C3_Witness ==
    /\ CheckedDone
    /\ eop = "keyswitch"
    /\ ~KeyswitchInputMatches
    /\ ~KeyswitchOutputMatches
    /\ result = "InputLweDimensionMismatch"

\* C4: a generic check returns Ok exactly when the named preconditions hold:
\* for keyswitch both dimension equalities, for negation the one.
C4_OkExactlyWhenPreconditionsHold ==
    CheckedDone =>
        /\ eop = "keyswitch" =>
              (result = "Ok" <=> (KeyswitchInputMatches /\ KeyswitchOutputMatches))
        /\ eop = "negation" =>
              (result = "Ok" <=> NegationDimensionsMatch)

\* a checked keyswitch whose output side alone is mismatched has returned
C4_Witness ==
    /\ CheckedDone
    /\ eop = "keyswitch"
    /\ KeyswitchInputMatches
    /\ ~KeyswitchOutputMatches
    /\ result # "Ok"

\* the key distribution markers of the call are the ones the operation demands
MarkersMatch ==
    IF eop = "negation" THEN input.kd = output.kd
    ELSE input.kd = ksk.inKd /\ output.kd = ksk.outKd

\* C5: marker equality is the first validation of a call: a call with
\* mismatched markers is rejected before any dimension check runs and before
\* anything is written, and every call that reaches a dimension check or an
\* effect has matching markers.
C5_MarkersAssertedFirst ==
    /\ epc \in {"ready", "done"} => MarkersMatch
    /\ result # "none" => MarkersMatch
    /\ epc = "rejected" =>
          (~MarkersMatch /\ result = "none" /\ entry = "none" /\ output = pre)

\* a keyswitch call whose dimensions all match is rejected on its output marker
C5_Witness ==
    /\ epc = "rejected"
    /\ eop = "keyswitch"
    /\ KeyswitchInputMatches /\ KeyswitchOutputMatches
    /\ input.kd = ksk.inKd
    /\ output.kd # ksk.outKd

\* the ciphertext whose coefficients are the opposites of ct's
Opposite(ct) == [ct EXCEPT !.mask = [j \in 1..Len(ct.mask) |-> Neg(ct.mask[j])],
                           !.body = Neg(ct.body)]

\* C9: a successful discarding negation writes the opposite of every mask
\* coefficient and of the body of its input and leaves the input as it was;
\* negating the result again gives back the mask and body of the original.
C9_NegationInvolution ==
    (CheckedDone /\ eop = "negation" /\ result = "Ok") =>
        /\ output.mask = Opposite(input).mask
        /\ output.body = Opposite(input).body
        /\ depth % 2 = 1 => (input.mask = orig.mask /\ input.body = orig.body)
        /\ depth % 2 = 0 => (output.mask = orig.mask /\ output.body = orig.body)

\* a ciphertext that is not its own opposite has been negated twice
C9_Witness ==
    /\ CheckedDone
    /\ eop = "negation"
    /\ result = "Ok"
    /\ depth = 2
    /\ orig.mask # Opposite(orig).mask
    /\ output # pre

----------------------------------------------------------------------------
(* The tensor-product fixture: properties of FixtureSpec *)

\* the positions of the log that hold the call ev
Calls(ev) == { i \in 1..Len(log) : log[i] = ev }

\* the entity was created for the current context
Created(e) == Calls(<<"synthesize", e>>) \cup Calls(<<"execute", e>>) # {}

\* C6: when process_context has returned, each of the four entities of the
\* context has been created and destroyed exactly once and none is live; no
\* entity is ever destroyed twice.
C6_EachEntityDestroyedExactlyOnce ==
    /\ \A e \in EntityNames : destroyed[e] <= 1
    /\ fpc = "processed" =>
          \A e \in EntityNames :
              /\ Created(e)
              /\ entity[e] = "destroyed"
              /\ destroyed[e] = 1
              /\ Cardinality(Calls(<<"destroy", e>>)) = 1

\* process_context has returned for the second sample of a repetition
C6_Witness ==
    /\ fpc = "processed"
    /\ samples = 2
    /\ \A e \in EntityNames : entity[e] = "destroyed"

\* C7 (as claimed): on every exit path of an iteration, a panic of a destroy
\* call included, every entity created for the context has been destroyed.
C7_DestroyedOnEveryExitPath ==
    fpc \in {"processed", "panicked", "criteria", "verified", "failed"} =>
        \A e \in EntityNames : Created(e) => destroyed[e] = 1

\* C8: in the calls of one context the engine runs only after the three
\* inputs are synthesized and reads only synthesized entities, the output is
\* un-synthesized only after the engine ran, nothing is destroyed before the
\* output is un-synthesized, and no call touches an entity after its destruction.
C8_StrictOrderPerContext ==
    \A i \in 1..Len(log) :
        /\ log[i][1] = "execute" =>
              \A e \in InputEntities : \E j \in 1..(i - 1) : log[j] = <<"synthesize", e>>
        /\ log[i][1] = "read" =>
              \E j \in 1..(i - 1) : log[j] = <<"synthesize", log[i][2]>>
        /\ log[i][1] = "unsynthesize" =>
              \E j \in 1..(i - 1) : log[j] = <<"execute", log[i][2]>>
        /\ log[i][1] \in {"destroy", "destroy_failed"} =>
              /\ \E j \in 1..(i - 1) : log[j] = <<"unsynthesize", "output_ciphertext">>
              /\ \A j \in (i + 1)..Len(log) : log[j][2] # log[i][2]

\* a context has gone through all its phases: its last entity is destroyed
C8_Witness ==
    /\ fpc = "processed"
    /\ Calls(<<"execute", "output_ciphertext">>) # {}
    /\ Calls(<<"destroy", "scale">>) # {}
    /\ Len(log) > 0
    /\ log[Len(log)][1] = "transform"

----------------------------------------------------------------------------
(* The adapter layer: properties of AdapterSpec *)

C11_ExpectedHasPolynomialSizeEntries ==
    (fpc = "processed" /\ outcome # NoOutcome) =>
        /\ outcome[1].len = parameters.polynomial_size
        /\ outcome[1].len = outcome[2].len

\* the phases of a sample, and those after it until the next repetition starts
SamplePhases ==
    {"sample", "prepared", "executed", "processed", "panicked", "criteria", "verified",
     "failed"}

\* the four repetition prototypes are there, the scale being the cleartext 1
RepetitionGenerated ==
    /\ repetition_proto.secret_key # NoRepetitionProto.secret_key
    /\ repetition_proto.plaintext_vector1 # NoRepetitionProto.plaintext_vector1
    /\ repetition_proto.plaintext_vector2 # NoRepetitionProto.plaintext_vector2
    /\ repetition_proto.scale # NoRepetitionProto.scale
    /\ transform_cleartext_to_raw("PrecisionF64", repetition_proto.scale) = 1

\* C12: the repetition prototypes are generated before any sample prototype;
\* in every sample the first ciphertext prototype encrypts plaintext vector 1
\* with noise_glwe_1 and the second plaintext vector 2 with noise_glwe_2, both
\* under the repetition's secret key; generating a sample leaves the
\* repetition prototypes unchanged
C12_SamplesEncryptTheRepetitionPrototypes ==
    /\ [](fpc \in SamplePhases =>
            /\ RepetitionGenerated
            /\ sample_proto.ciphertext1.secret_key = repetition_proto.secret_key
            /\ sample_proto.ciphertext1.plaintext_vector = repetition_proto.plaintext_vector1
            /\ sample_proto.ciphertext1.noise = parameters.noise_glwe_1
            /\ sample_proto.ciphertext2.secret_key = repetition_proto.secret_key
            /\ sample_proto.ciphertext2.plaintext_vector = repetition_proto.plaintext_vector2
            /\ sample_proto.ciphertext2.noise = parameters.noise_glwe_2)
    /\ [][fpc' = "sample" =>
            /\ RepetitionGenerated
            /\ repetition_proto' = repetition_proto]_vars

\* a second sample of a repetition whose two plaintext vectors differ
C12_Witness ==
    /\ fpc = "sample"
    /\ samples = 2
    /\ RepetitionGenerated
    /\ repetition_proto.plaintext_vector1 # repetition_proto.plaintext_vector2
    /\ sample_proto.ciphertext1.plaintext_vector = repetition_proto.plaintext_vector1
    /\ sample_proto.ciphertext2.plaintext_vector = repetition_proto.plaintext_vector2

\* C13: the criteria compute_criteria returns is a function of the parameter
\* set (and of the key distribution of the instantiation): any two calls with
\* the same parameter set return the same criteria, whatever the repetition
\* prototypes and the number of samples
C13_CriteriaDependOnParametersOnly ==
    \A a \in criteria_history, b \in criteria_history :
        a.parameters = b.parameters => a.criteria = b.criteria

\* the second call for the second parameter set, made after a single sample
C13_Witness ==
    /\ fpc = "criteria"
    /\ repetitions = 2
    /\ samples = 1
    /\ parameters = generate_parameters_iterator[2]
    /\ \E a \in criteria_history : a.parameters = parameters /\ a.criteria = criteria
    /\ \E b \in criteria_history : b.parameters # parameters /\ b.criteria # criteria

\* the parameter set of the claim with the given GLWE dimension: polynomial
\* size 256, both variances 1e-8, both deltas 16, both message bounds 4
StatedParameters(k) ==
    [noise_glwe_1 |-> [mantissa |-> 1, exp10 |-> -8],
     noise_glwe_2 |-> [mantissa |-> 1, exp10 |-> -8],
     delta_1 |-> 16, delta_2 |-> 16, msg_bound_1 |-> 4, msg_bound_2 |-> 4,
     glwe_dimension |-> k, polynomial_size |-> 256]

\* C14: the iterator yields exactly two parameter sets, the stated one of GLWE
\* dimension 200 and then the stated one of GLWE dimension 1, and then ends;
\* no phase but the taking of the next parameter set changes the parameter set
C14_TwoStaticParameterSets ==
    /\ [](\/ (parameters = NoParameters
               /\ remaining = <<StatedParameters(200), StatedParameters(1)>>)
           \/ (parameters = StatedParameters(200)
               /\ remaining = <<StatedParameters(1)>>)
           \/ (parameters = StatedParameters(1)
               /\ remaining = <<>>))
    /\ [][parameters' # parameters =>
            /\ fpc' = "parameters"
            /\ remaining # <<>>
            /\ parameters' = Head(remaining)
            /\ remaining' = Tail(remaining)]_vars

\* both sets were yielded and run to their last verification: the iterator has ended
C14_Witness ==
    /\ fpc = "verified"
    /\ repetitions = MaxRepetitions
    /\ parameters = StatedParameters(1)
    /\ remaining = <<>>
    /\ \E a \in criteria_history : a.parameters = StatedParameters(200)

\* the formula kind the claim assigns to a key distribution marker
StatedKind(K) ==
    CASE K = "BinaryKeyDistribution" -> "BinaryKeyKind"
      [] K = "TernaryKeyDistribution" -> "TernaryKeyKind"
      [] K = "GaussianKeyDistribution" -> "GaussianKeyKind"
      [] OTHER -> "none"

\* C15: for each of the three key distribution markers
\* fix_estimate_tensor_product_noise returns, without panicking, the estimate
\* of the marker's own formula kind on the eight arguments it was given,
\* unchanged and in order
C15_DispatchByKeyDistribution ==
    fpc \in {"criteria", "verified", "failed"} =>
        /\ key_distribution \in
              {"BinaryKeyDistribution", "TernaryKeyDistribution", "GaussianKeyDistribution"}
        /\ Len(criteria) = 1
        /\ DOMAIN criteria[1] = {"kind", "args"}
        /\ criteria[1].kind = StatedKind(key_distribution)
        /\ criteria[1].args =
              << parameters.polynomial_size, parameters.glwe_dimension,
                 parameters.noise_glwe_1, parameters.noise_glwe_2,
                 parameters.delta_1, parameters.delta_2,
                 parameters.msg_bound_1, parameters.msg_bound_2 >>

\* the estimate of a ternary instantiation, for the parameter set of dimension 1
C15_Witness ==
    /\ fpc = "criteria"
    /\ key_distribution = "TernaryKeyDistribution"
    /\ parameters.glwe_dimension = 1
    /\ criteria[1].kind = "TernaryKeyKind"
    /\ criteria[1].args[2] = 1

====
